---------------------------- MODULE Spec2Model ----------------------------
(***************************************************************************)
(* Model of descriptors/rectangularity/rectangularity.py: one call of      *)
(* rectangularity(image, method) on a small binary mask.                   *)
(*                                                                         *)
(* The masks are small canvases whose 8-connected foreground components    *)
(* are filled axis-aligned rectangles (single pixels and straight lines    *)
(* included).  For such a component the OpenCV calls the code makes have   *)
(* exact integer results: the CHAIN_APPROX_SIMPLE contour is the list of   *)
(* the corner pixels, its arc length, polygon moments, bounding rectangle  *)
(* and minimum-area rectangle are those of the rectangle through the       *)
(* corner pixels' centres.  Floating-point values are modelled exactly, as *)
(* numbers (p + q*sqrt(d))/r.                                              *)
(***************************************************************************)
EXTENDS Integers, Sequences, FiniteSets, TLC

\* Canvas size: image.shape == (Rows, Cols).
Rows == 2
Cols == 4

Abs(n) == IF n < 0 THEN -n ELSE n
Max2(m, n) == IF m > n THEN m ELSE n
Min2(m, n) == IF m < n THEN m ELSE n

RECURSIVE GCD(_, _)
GCD(m, n) == IF n = 0 THEN m ELSE GCD(n, m % n)

\* floor(sqrt(n)) for n >= 0.
ISqrt(n) == CHOOSE k \in 0 .. n : k * k <= n /\ n < (k + 1) * (k + 1)

---------------------------------------------------------------------------
(***************************************************************************)
(* Exact numbers.  [p, q, r, d] stands for (p + q*sqrt(d))/r with r > 0;   *)
(* d = 0 (and q = 0) for a rational.  d is never a perfect square when     *)
(* q # 0.  Two operands of one operation carry the same d or are rational. *)
(***************************************************************************)
Num(p, q, r, d) ==
    LET s == IF r < 0 THEN -1 ELSE 1
        g == GCD(GCD(Abs(p), Abs(q)), Abs(r))
    IN  [p |-> (s * p) \div g, q |-> (s * q) \div g, r |-> (s * r) \div g,
         d |-> IF q = 0 THEN 0 ELSE d]

Rat(n, m) == Num(n, 0, m, 0)
Whole(n) == Rat(n, 1)

RadOf(a, b) == Max2(a.d, b.d)

\* -1, 0 or 1: the sign of (p + q*sqrt(d))/r.
Sign(a) ==
    LET sp == IF a.p > 0 THEN 1 ELSE IF a.p < 0 THEN -1 ELSE 0
        sq == IF a.q > 0 THEN 1 ELSE IF a.q < 0 THEN -1 ELSE 0
        p2 == a.p * a.p
        q2 == a.q * a.q * a.d
    IN  IF sq = 0 THEN sp
        ELSE IF sp = 0 THEN sq
        ELSE IF sp = sq THEN sp
        ELSE IF p2 > q2 THEN sp
        ELSE IF p2 < q2 THEN sq
        ELSE 0

\* a + b over the least common denominator; g is the gcd of the denominators.
AddOver(a, b, g) ==
    Num(a.p * (b.r \div g) + b.p * (a.r \div g),
        a.q * (b.r \div g) + b.q * (a.r \div g),
        (a.r \div g) * b.r, RadOf(a, b))
Add(a, b) == AddOver(a, b, GCD(a.r, b.r))
Neg(a) == Num(-a.p, -a.q, a.r, a.d)
Sub(a, b) == Add(a, Neg(b))
\* a * b with the common factors g1 of a's numerator and b's denominator and
\* g2 of b's numerator and a's denominator cancelled first.
MulOver(a, b, g1, g2) ==
    Num((a.p \div g1) * (b.p \div g2) + (a.q \div g1) * (b.q \div g2) * RadOf(a, b),
        (a.p \div g1) * (b.q \div g2) + (a.q \div g1) * (b.p \div g2),
        (a.r \div g2) * (b.r \div g1), RadOf(a, b))
Mul(a, b) ==
    MulOver(a, b, GCD(GCD(Abs(a.p), Abs(a.q)), b.r), GCD(GCD(Abs(b.p), Abs(b.q)), a.r))
\* 1/a for a # 0: r/p for a rational, else r*(p - q*sqrt(d)) / (p^2 - q^2*d).
Inv(a) ==
    IF a.q = 0 THEN Num(a.r, 0, a.p, 0)
    ELSE Num(a.r * a.p, -(a.r * a.q), a.p * a.p - a.q * a.q * a.d, a.d)
Div(a, b) == Mul(a, Inv(b))
AbsNum(a) == IF Sign(a) < 0 THEN Neg(a) ELSE a

Lt(a, b) == Sign(Sub(a, b)) < 0
Le(a, b) == Sign(Sub(a, b)) <= 0
Gt(a, b) == Sign(Sub(a, b)) > 0
Eq(a, b) == Sign(Sub(a, b)) = 0
IsZero(a) == Sign(a) = 0
InUnitInterval(a) == Le(Whole(0), a) /\ Le(a, Whole(1))

\* The largest k with k*k a divisor of n, for n >= 1.
SquarePart(n) ==
    CHOOSE k \in 1 .. ISqrt(n) :
        /\ n % (k * k) = 0
        /\ \A j \in (k + 1) .. ISqrt(n) : n % (j * j) # 0

\* k * sqrt(n / k^2), in lowest terms.
Surd(n, k) == IF n = k * k THEN Whole(k) ELSE Num(0, k, 1, n \div (k * k))

\* math.sqrt(n) of an integer n >= 0.
SqrtNum(n) == IF n = 0 THEN Whole(0) ELSE Surd(n, SquarePart(n))


---------------------------------------------------------------------------
(***************************************************************************)
(* Images.  A pixel is <<row, col>> (numpy order); a contour point is      *)
(* <<x, y>> with x the column and y the row (OpenCV order).                *)
(***************************************************************************)
Pixels == (0 .. Rows - 1) \X (0 .. Cols - 1)

\* "8-bit single-channel image. Non-zero pixels are treated as 1's": the
\* foreground value of a thresholded mask is 1 or 255.
ForegroundValues == {1, 255}

Blank == [p \in Pixels |-> 0]

Foreground(img) == {p \in Pixels : img[p] # 0}

RECURSIVE SumOver(_, _)
SumOver(img, S) ==
    IF S = {} THEN 0
    ELSE LET p == CHOOSE p \in S : TRUE IN img[p] + SumOver(img, S \ {p})

\* np.sum(image): the sum of the pixel values (uint8 summed without wrap).
np_sum(img) == SumOver(img, Foreground(img))

\* np.sum(image[r0:r1, c0:c1]) for non-negative slice bounds.
SliceSum(img, r0, r1, c0, c1) ==
    SumOver(img, {p \in Pixels : r0 <= p[1] /\ p[1] < r1 /\ c0 <= p[2] /\ p[2] < c1})

Adjacent8(p, q) == p # q /\ Abs(p[1] - q[1]) <= 1 /\ Abs(p[2] - q[2]) <= 1

RECURSIVE Flood(_, _)
Flood(fg, S) ==
    LET N == {q \in fg \ S : \E p \in S : Adjacent8(p, q)}
    IN  IF N = {} THEN S ELSE Flood(fg, S \cup N)

\* The 8-connected components of the pixel set fg.
RECURSIVE ComponentsOf(_)
ComponentsOf(fg) ==
    IF fg = {} THEN {}
    ELSE {Flood(fg, {CHOOSE p \in fg : TRUE})}
         \cup ComponentsOf(fg \ Flood(fg, {CHOOSE p \in fg : TRUE}))

Components(img) == ComponentsOf(Foreground(img))

MinCol(C) == CHOOSE c \in {p[2] : p \in C} : \A q \in C : c <= q[2]
MaxCol(C) == CHOOSE c \in {p[2] : p \in C} : \A q \in C : c >= q[2]
MinRow(C) == CHOOSE r \in {p[1] : p \in C} : \A q \in C : r <= q[1]
MaxRow(C) == CHOOSE r \in {p[1] : p \in C} : \A q \in C : r >= q[1]

IsFilledRect(C) ==
    C = {p \in Pixels : MinRow(C) <= p[1] /\ p[1] <= MaxRow(C)
                        /\ MinCol(C) <= p[2] /\ p[2] <= MaxCol(C)}

\* The outer contour of a filled rectangle under CHAIN_APPROX_SIMPLE: its
\* corner pixels (one point for a pixel, the two end points for a line).
ContourOf(C) ==
    LET x0 == MinCol(C)  x1 == MaxCol(C)  y0 == MinRow(C)  y1 == MaxRow(C)
    IN  IF x0 = x1 /\ y0 = y1 THEN << <<x0, y0>> >>
        ELSE IF x0 = x1 \/ y0 = y1 THEN << <<x0, y0>>, <<x1, y1>> >>
        ELSE << <<x0, y0>>, <<x0, y1>>, <<x1, y1>>, <<x1, y0>> >>

\* Raster index of the first pixel of a component met by a row-major scan.
ScanKey(C) == MinRow(C) * Cols + MinCol({p \in C : p[1] = MinRow(C)})

RECURSIVE ContourSeq(_, _)
ContourSeq(S, order) ==
    IF S = {} THEN << >>
    ELSE LET c == CHOOSE c \in S :
                    \A o \in S : IF order = "scan" THEN ScanKey(c) <= ScanKey(o)
                                 ELSE ScanKey(c) >= ScanKey(o)
         IN  << ContourOf(c) >> \o ContourSeq(S \ {c}, order)

\* cv.findContours(image, RETR_EXTERNAL, CHAIN_APPROX_SIMPLE): one contour per
\* component; the library lists them in scan order or in its reverse.
cv_findContours(img, order) == ContourSeq(Components(img), order)

Xs(cnt) == {cnt[i][1] : i \in 1 .. Len(cnt)}
Ys(cnt) == {cnt[i][2] : i \in 1 .. Len(cnt)}
SetMin(S) == CHOOSE m \in S : \A n \in S : m <= n
SetMax(S) == CHOOSE m \in S : \A n \in S : m >= n

\* cv.boundingRect(cnt): (x, y, w, h), x the left column, y the top row.
cv_boundingRect(cnt) ==
    [x |-> SetMin(Xs(cnt)), y |-> SetMin(Ys(cnt)),
     w |-> SetMax(Xs(cnt)) - SetMin(Xs(cnt)) + 1,
     h |-> SetMax(Ys(cnt)) - SetMin(Ys(cnt)) + 1]

\* Length of an axis-aligned segment.
SegLen(p, q) == Abs(p[1] - q[1]) + Abs(p[2] - q[2])

RECURSIVE PathLen(_, _)
PathLen(cnt, i) ==
    IF i > Len(cnt) THEN 0
    ELSE SegLen(cnt[i], cnt[IF i = Len(cnt) THEN 1 ELSE i + 1]) + PathLen(cnt, i + 1)

\* cv.arcLength(cnt, True): the length of the closed polyline.
cv_arcLength(cnt) == PathLen(cnt, 1)

\* cv.moments(cnt): the moments of the polygon through the contour points,
\* here the rectangle of sides W and H.  The central moments are kept in
\* twelfths: mu20 = W^3*H/12, mu02 = W*H^3/12, mu11 = 0.  A polygon of area 0
\* has all moments 0.
cv_moments(cnt) ==
    LET W == SetMax(Xs(cnt)) - SetMin(Xs(cnt))
        H == SetMax(Ys(cnt)) - SetMin(Ys(cnt))
    IN  [m00 |-> W * H, mu20x12 |-> W * W * W * H, mu02x12 |-> W * H * H * H,
         mu11x12 |-> 0]

\* np.int0(cv.boxPoints(cv.minAreaRect(cnt))): the corners of the least
\* rectangle around the contour points, here the rectangle itself.
MinAreaBox(cnt) ==
    [x0 |-> SetMin(Xs(cnt)), x1 |-> SetMax(Xs(cnt)),
     y0 |-> SetMin(Ys(cnt)), y1 |-> SetMax(Ys(cnt))]

\* cv.fillConvexPoly(image, box, color): the polygon's pixels, border
\* included, take the colour; the others keep their value.
cv_fillConvexPoly(img, box, color) ==
    [p \in Pixels |->
        IF box.y0 <= p[1] /\ p[1] <= box.y1 /\ box.x0 <= p[2] /\ p[2] <= box.x1
        THEN color ELSE img[p]]

---------------------------------------------------------------------------
(***************************************************************************)
(* The masks a call is made on: the blank mask, and every mask of one      *)
(* filled rectangle, alone or with one more pixel that does not touch it,  *)
(* in either foreground value.                                             *)
(***************************************************************************)
RectSets ==
    {{p \in Pixels : r0 <= p[1] /\ p[1] <= r1 /\ c0 <= p[2] /\ p[2] <= c1} :
        <<r0, r1, c0, c1>> \in
            {t \in (0 .. Rows - 1) \X (0 .. Rows - 1) \X (0 .. Cols - 1) \X (0 .. Cols - 1) :
                t[1] <= t[2] /\ t[3] <= t[4]}}

Touching(A, B) == \E p \in A, q \in B : p = q \/ Adjacent8(p, q)

BlobSets ==
    RectSets \cup {t[1] \cup {t[2]} : t \in {u \in RectSets \X Pixels : ~Touching(u[1], {u[2]})}}

Paint(S, v) == [p \in Pixels |-> IF p \in S THEN v ELSE 0]

CallerMasks == {Blank} \cup {Paint(S, v) : S \in BlobSets, v \in ForegroundValues}

\* The rotation centre of imutils.rotate: (w // 2, h // 2), as <<row, col>>.
Centre == <<Rows \div 2, Cols \div 2>>

ValueOf(img) == CHOOSE v \in ForegroundValues : \E p \in Pixels : img[p] = v

\* The filled rectangles whose top left corner is the first pixel or the centre.
RotatedSets ==
    {S \in RectSets : \E c \in {<<0, 0>>, Centre} :
        c \in S /\ \A p \in S : c[1] <= p[1] /\ c[2] <= p[2]}

\* imutils.rotate(image, 45): a new image of the same size.  The centre pixel
\* is a fixed point of the rotation; what turns out of the canvas is lost, so a
\* region away from the centre may leave nothing.  The results are kept to the
\* blank image and the masks of one rectangle of RotatedSets; a blank image
\* stays blank.
imutils_rotate(img) ==
    IF Foreground(img) = {} THEN {Blank}
    ELSE {Paint(S, ValueOf(img)) :
            S \in {T \in RotatedSets \cup {{}} : (Centre \in T) <=> (img[Centre] # 0)}}

---------------------------------------------------------------------------
(***************************************************************************)
(* The functions of rectangularity.py.  A function that can raise returns  *)
(* a record whose field raised names the exception ("" for none).  Values  *)
(* that the code binds to a local and uses more than once are passed on as *)
(* operator arguments.                                                     *)
(***************************************************************************)

\* Line 214, cnt = contours[0]: an IndexError on an empty list.
FirstContour(contours) ==
    IF Len(contours) = 0 THEN [raised |-> "IndexError", cnt |-> << >>]
    ELSE [raised |-> "", cnt |-> contours[1]]

get_contour(img, order) == FirstContour(cv_findContours(img, order))

\* math.sqrt of a rational a >= 0.
SqrtRat(a) == Div(SqrtNum(a.p * a.r), Whole(a.r))

\* math.sqrt of the two radicands: a ValueError (math domain error) below 0.
SidesOfSquares(aa, bb) ==
    IF Sign(aa) < 0 \/ Sign(bb) < 0
    THEN [raised |-> "ValueError", a |-> Whole(0), b |-> Whole(0)]
    ELSE [raised |-> "", a |-> SqrtRat(aa), b |-> SqrtRat(bb)]

\* Lines 193-196 with the central moments in twelfths:
\* 6*(mu20 + mu02 +- root)/m00 = (mu20x12 + mu02x12 +- 12*root)/(2*m00).
SidesOfRoot(M, root12) ==
    SidesOfSquares(Div(Add(Whole(M.mu20x12 + M.mu02x12), root12), Whole(2 * M.m00)),
                   Div(Sub(Whole(M.mu20x12 + M.mu02x12), root12), Whole(2 * M.m00)))

get_sides_based_on_moments(M) ==
    IF M.m00 # 0
    THEN SidesOfRoot(M, SqrtNum((M.mu20x12 - M.mu02x12) * (M.mu20x12 - M.mu02x12)
                                + 4 * M.mu11x12 * M.mu11x12))
    ELSE [raised |-> "", a |-> Whole(0), b |-> Whole(0)]

\* A variant that fills the rectangle in the image it was given.
SameBuffer(ref) == ref

\* Line 117, image = image.copy(): the buffer the fill is written to.
WorkingCopy(ref) == "copy"

\* Lines 115-121: region_area, the fill of the box on the buffer tgt, mbr_area.
FillAndCount(h, ref, tgt, box) ==
    [raised |-> "",
     heap |-> [h EXCEPT ![tgt] = cv_fillConvexPoly(h[ref], box, 1)],
     region_area |-> np_sum(h[ref]),
     mbr_area |-> np_sum(cv_fillConvexPoly(h[ref], box, 1))]

MbrAreasOfContour(h, ref, c) ==
    IF c.raised # ""
    THEN [raised |-> c.raised, heap |-> h, region_area |-> 0, mbr_area |-> 0]
    ELSE FillAndCount(h, ref, WorkingCopy(ref), MinAreaBox(c.cnt))

\* get_mbr_areas on the buffer ref of the heap h.
get_mbr_areas(h, ref, order) == MbrAreasOfContour(h, ref, get_contour(h[ref], order))

\* x, y, w, h = cv.boundingRect(cnt); box_image = image[x:w, y:h];
\* np.sum(box_image) (lines 137-141 and 168-172).
BoxImageSum(img, r) == SliceSum(img, r.x, r.w, r.y, r.h)

ClippedRegion(img, cnt) == BoxImageSum(img, cv_boundingRect(cnt))

\* if R > 1: return 1 (lines 153-156 and 181-183).
AtMostOne(v) == IF Gt(v, Whole(1)) THEN Whole(1) ELSE v

\* abs(1 - (R + D) / B), at most 1.
Discrepancy(R, D, B) == AtMostOne(AbsNum(Sub(Whole(1), Div(Add(R, Whole(D)), B))))

Raised(exc, h) ==
    [raised |-> exc, value |-> Whole(0), A1 |-> 0, A2 |-> 0, heap |-> h,
     region_area |-> 0, mbr_area |-> 0]

\* Lines 140-156.
RdValue(h, A1, A2, A3) ==
    [raised |-> "",
     value |-> IF IsZero(A3) THEN Whole(0) ELSE Discrepancy(Sub(A3, Whole(A2)), A1 - A2, A3),
     A1 |-> A1, A2 |-> A2, heap |-> h, region_area |-> 0, mbr_area |-> 0]

RdOfSides(h, A1, A2, s) ==
    IF s.raised # "" THEN Raised(s.raised, h) ELSE RdValue(h, A1, A2, Mul(s.a, s.b))

RdOfContour(h, ref, c) ==
    IF c.raised # "" THEN Raised(c.raised, h)
    ELSE RdOfSides(h, np_sum(h[ref]), ClippedRegion(h[ref], c.cnt),
                   get_sides_based_on_moments(cv_moments(c.cnt)))

get_rectangular_discrepancy_descriptor(h, ref, order) ==
    RdOfContour(h, ref, get_contour(h[ref], order))

\* Lines 171-183.
RrValue(m, A2, A3) ==
    [raised |-> "",
     value |-> Discrepancy(Sub(A3, Whole(A2)), m.region_area - A2, Whole(m.mbr_area)),
     A1 |-> m.region_area, A2 |-> A2, heap |-> m.heap,
     region_area |-> m.region_area, mbr_area |-> m.mbr_area]

RrOfSides(m, A2, s) ==
    IF s.raised # "" THEN Raised(s.raised, m.heap)
    ELSE IF m.mbr_area = 0 THEN Raised("ZeroDivisionError", m.heap)
    ELSE RrValue(m, A2, Mul(s.a, s.b))

RrOfContour(h, ref, c, m) ==
    IF c.raised # "" THEN Raised(c.raised, h)
    ELSE RrOfSides(m, ClippedRegion(h[ref], c.cnt),
                   get_sides_based_on_moments(cv_moments(c.cnt)))

get_robust_mbr_discrepancy(h, ref, order) ==
    RrOfContour(h, ref, get_contour(h[ref], order), get_mbr_areas(h, ref, order))

\* descriptors.utils.moments.moments(image): m00 is the foreground pixel
\* count and mu22 the central moment sum (x - cx)^2 * (y - cy)^2 over the
\* foreground pixels, cx = Sx/n and cy = Sy/n, so mu22 = S/n^4 with
\* S = sum (n*x - Sx)^2 * (n*y - Sy)^2.
RECURSIVE Mu22Sum(_, _, _, _)
Mu22Sum(S, n, Sx, Sy) ==
    IF S = {} THEN 0
    ELSE LET p == CHOOSE p \in S : TRUE
         IN  (n * p[2] - Sx) * (n * p[2] - Sx) * (n * p[1] - Sy) * (n * p[1] - Sy)
             + Mu22Sum(S \ {p}, n, Sx, Sy)

MomentsOf(fg, n, Sx, Sy) ==
    [m00 |-> n,
     mu22 |-> IF n = 0 THEN Whole(0) ELSE Rat(Mu22Sum(fg, n, Sx, Sy), n * n * n * n)]

moments(img) ==
    MomentsOf(Foreground(img), Cardinality(Foreground(img)),
              SumOver([p \in Pixels |-> p[2]], Foreground(img)),
              SumOver([p \in Pixels |-> p[1]], Foreground(img)))

\* Line 89: R_M = 144 * m['mu22'] / (m['m00'] ** 3), for m00 # 0.
RawMoments(m) == Div(Mul(Whole(144), m.mu22), Whole(m.m00 * m.m00 * m.m00))

\* A variant that returns the raw ratio as it is.
Unfolded(raw) == raw

\* Lines 91-94: R_M itself up to 1, its reciprocal above.
FoldMoments(raw) == IF Le(raw, Whole(1)) THEN raw ELSE Div(Whole(1), raw)

\* Lines 70-71: (P +- sqrt(|P^2 - 16A|)) / 4.
Root1(P, A) == Div(Add(Whole(P), SqrtNum(Abs(P * P - 16 * A))), Whole(4))
Root2(P, A) == Div(Sub(Whole(P), SqrtNum(Abs(P * P - 16 * A))), Whole(4))

\* A variant that gives up only when both roots are negative.
BothRootsNegative(a2_1, a2_2) == Sign(a2_1) < 0 /\ Sign(a2_2) < 0

\* Line 72: a2_1 < 0 or a2_2 < 0.
NotARectangle(a2_1, a2_2) == Sign(a2_1) < 0 \/ Sign(a2_2) < 0

\* Lines 74-77: the larger root.
LargerRoot(a2_1, a2_2) == IF Gt(a2_1, a2_2) THEN a2_1 ELSE a2_2

\* Lines 80-81: R = |a1 - a2|/(a1 + a2) + |b1 - b2|/(b1 + b2); 1 - R/2.
Agreement(a1, b1, a2, b2) ==
    Sub(Whole(1),
        Div(Add(Div(AbsNum(Sub(a1, a2)), Add(a1, a2)),
                Div(AbsNum(Sub(b1, b2)), Add(b1, b2))),
            Whole(2)))

Value(v) == [raised |-> "", value |-> v]
Fault(exc) == [raised |-> exc, value |-> Whole(0)]

RaOfB2(s, a2, b2) ==
    IF IsZero(Add(s.a, a2)) \/ IsZero(Add(s.b, b2)) THEN Fault("ZeroDivisionError")
    ELSE Value(Agreement(s.a, s.b, a2, b2))

\* Line 78: b2 = A / a2.
RaOfA2(s, A, a2) ==
    IF IsZero(a2) THEN Fault("ZeroDivisionError") ELSE RaOfB2(s, a2, Div(Whole(A), a2))

RaOfRoots(s, A, a2_1, a2_2) ==
    IF NotARectangle(a2_1, a2_2) THEN Value(Whole(0))
    ELSE RaOfA2(s, A, LargerRoot(a2_1, a2_2))

RaOfSides(s, A, P) ==
    IF s.raised # "" THEN Fault(s.raised) ELSE RaOfRoots(s, A, Root1(P, A), Root2(P, A))

RaOfContour(img, c) ==
    IF c.raised # "" THEN Fault(c.raised)
    ELSE RaOfSides(get_sides_based_on_moments(cv_moments(c.cnt)), np_sum(img),
                   cv_arcLength(c.cnt))

\* Lines 58-82, the Agreement branch.
AgreementMethod(img, order) == RaOfContour(img, get_contour(img, order))

\* A variant that keeps the lesser of the two descriptors.
SelectLesser(straight, rotated) == IF Lt(straight, rotated) THEN straight ELSE rotated

\* Lines 40-42 and 50-52: the straight descriptor if it is the greater.
SelectDescriptor(straight, rotated) == IF Gt(straight, rotated) THEN straight ELSE rotated

---------------------------------------------------------------------------
MbrNames == {"r_b", "Minimum Bounding Rectangle (MBR)", "mbr"}
RdNames == {"r_d", "Rectangular Discrepancy"}
RrNames == {"r_r", "Robust MBR"}
RaNames == {"r_a", "Agreement method"}
RmNames == {"r_m", "Moments method"}
Recognised == MbrNames \cup RdNames \cup RrNames \cup RaNames \cup RmNames
\* Identifiers a caller may pass: the recognised ones and two that are not.
Methods == Recognised \cup {"R_B", "moments"}

VARIABLES
    heap,       \* the pixel buffers: the caller's image, rotated_image, the copy
    image0,     \* the caller's image as it was when the call was made
    method,     \* the method argument
    order,      \* the order in which cv.findContours lists the contours
    pc,         \* "call" before the call, "done" after it
    outcome,    \* "pending", "return" (a number), "None", "nan" or an exception
    result,     \* the number returned
    straight_image_descriptor,
    rotated_image_descriptor,
    areas,      \* per buffer, the (region_area, mbr_area) get_mbr_areas returned
    clip        \* per buffer, A1 and A2 of its per-orientation descriptor

vars == <<heap, image0, method, order, pc, outcome, result,
          straight_image_descriptor, rotated_image_descriptor, areas, clip>>

NoAreas == [computed |-> FALSE, region_area |-> 0, mbr_area |-> 0]
NoClip == [computed |-> FALSE, A1 |-> 0, A2 |-> 0]

Init ==
    /\ image0 \in CallerMasks
    /\ heap = [image |-> image0, rotated_image |-> Blank, copy |-> Blank]
    /\ method \in Methods
    /\ order \in {"scan", "reverse"}
    /\ pc = "call"
    /\ outcome = "pending"
    /\ result = Whole(0)
    /\ straight_image_descriptor = Whole(0)
    /\ rotated_image_descriptor = Whole(0)
    /\ areas = [image |-> NoAreas, rotated_image |-> NoAreas]
    /\ clip = [image |-> NoClip, rotated_image |-> NoClip]

Finish(out, val) ==
    /\ pc' = "done"
    /\ outcome' = out
    /\ result' = val

AreasOf(m) == [computed |-> TRUE, region_area |-> m.region_area, mbr_area |-> m.mbr_area]
ClipOf(d) == [computed |-> TRUE, A1 |-> d.A1, A2 |-> d.A2]

\* Lines 27-29: R_B = region_area / mbr_area.
MbrRatio(m) ==
    /\ heap' = m.heap
    /\ IF m.raised # "" THEN Finish(m.raised, Whole(0)) /\ areas' = areas
       ELSE /\ areas' = [areas EXCEPT !["image"] = AreasOf(m)]
            /\ IF m.mbr_area = 0 THEN Finish("nan", Whole(0))
               ELSE Finish("return", Rat(m.region_area, m.mbr_area))

\* Lines 25-29.
MinimumBoundingRectangle ==
    /\ pc = "call"
    /\ method \in MbrNames
    /\ MbrRatio(get_mbr_areas(heap, "image", order))
    /\ UNCHANGED <<image0, method, order, straight_image_descriptor,
                   rotated_image_descriptor, clip>>

\* The per-orientation descriptor of the method on the buffer ref of h.
PerOrientation(h, ref) ==
    IF method \in RdNames
    THEN get_rectangular_discrepancy_descriptor(h, ref, order)
    ELSE get_robust_mbr_discrepancy(h, ref, order)

ObservedAreas(obs, ref, d) ==
    IF d.raised = "" /\ method \in RrNames THEN [obs EXCEPT ![ref] = AreasOf(d)] ELSE obs

ObservedClip(obs, ref, d) ==
    IF d.raised = "" THEN [obs EXCEPT ![ref] = ClipOf(d)] ELSE obs

\* Lines 38-42 and 48-52, with the straight descriptor ds computed: the
\* descriptor dr of the rotated image, and the greater of the two.
RotatedAndSelect(ds, dr) ==
    /\ heap' = dr.heap
    /\ areas' = ObservedAreas(ObservedAreas(areas, "image", ds), "rotated_image", dr)
    /\ clip' = ObservedClip(ObservedClip(clip, "image", ds), "rotated_image", dr)
    /\ straight_image_descriptor' = ds.value
    /\ IF dr.raised # ""
       THEN Finish(dr.raised, Whole(0)) /\ UNCHANGED rotated_image_descriptor
       ELSE /\ rotated_image_descriptor' = dr.value
            /\ Finish("return", SelectDescriptor(ds.value, dr.value))

\* Lines 37 and 47: the descriptor ds of the image as it is, on the heap h
\* that holds the rotated image; its exception ends the call.
StraightThenRotated(h, ds) ==
    IF ds.raised # ""
    THEN /\ heap' = h
         /\ Finish(ds.raised, Whole(0))
         /\ UNCHANGED <<straight_image_descriptor, rotated_image_descriptor, areas, clip>>
    ELSE RotatedAndSelect(ds, PerOrientation(h, "rotated_image"))

\* Lines 35 and 45, rotated_image = imutils.rotate(image, 45), and the rest of
\* the branch.  ds is the descriptor of the image as it is, which leaves
\* rotated_image alone.
BothOrientations(ds) ==
    \E r \in imutils_rotate(heap["image"]) :
        StraightThenRotated([ds.heap EXCEPT !["rotated_image"] = r], ds)

\* Lines 31-42.
RectangularDiscrepancy ==
    /\ pc = "call"
    /\ method \in RdNames
    /\ BothOrientations(PerOrientation(heap, "image"))
    /\ UNCHANGED <<image0, method, order>>

\* Lines 44-52.
RobustMBR ==
    /\ pc = "call"
    /\ method \in RrNames
    /\ BothOrientations(PerOrientation(heap, "image"))
    /\ UNCHANGED <<image0, method, order>>

FinishWith(r) == IF r.raised # "" THEN Finish(r.raised, Whole(0)) ELSE Finish("return", r.value)

\* Lines 54-82.
AgreementBranch ==
    /\ pc = "call"
    /\ method \in RaNames
    /\ FinishWith(AgreementMethod(heap["image"], order))
    /\ UNCHANGED <<heap, image0, method, order, straight_image_descriptor,
                   rotated_image_descriptor, areas, clip>>

\* Lines 85-94.  With m00 = 0 the quotient 144 * mu22 / 0 is a
\* ZeroDivisionError on Python numbers and nan on numpy ones.
MomentsRatio(m) ==
    IF m.m00 = 0
    THEN \E out \in {"ZeroDivisionError", "nan"} : Finish(out, Whole(0))
    ELSE Finish("return", FoldMoments(RawMoments(m)))

\* Lines 84-94.
MomentsBranch ==
    /\ pc = "call"
    /\ method \in RmNames
    /\ MomentsRatio(moments(heap["image"]))
    /\ UNCHANGED <<heap, image0, method, order, straight_image_descriptor,
                   rotated_image_descriptor, areas, clip>>

\* Lines 96-97: print("Wrong method.") and fall off the end of the function.
WrongMethod ==
    /\ pc = "call"
    /\ method \notin Recognised
    /\ Finish("None", Whole(0))
    /\ UNCHANGED <<heap, image0, method, order, straight_image_descriptor,
                   rotated_image_descriptor, areas, clip>>

Next ==
    \/ MinimumBoundingRectangle
    \/ RectangularDiscrepancy
    \/ RobustMBR
    \/ AgreementBranch
    \/ MomentsBranch
    \/ WrongMethod

Spec == Init /\ [][Next]_vars

---------------------------------------------------------------------------
(***************************************************************************)
(* The claims.                                                             *)
(***************************************************************************)
Done == pc = "done"
Returned == Done /\ outcome = "return"
NonEmpty == Foreground(image0) # {}

\* The outcomes that report an error to the caller.
Exceptions == {"IndexError", "ValueError", "ZeroDivisionError", "InvalidMethod"}

\* The first contour of the caller's image (of a non-empty image).
Cnt == get_contour(image0, order).cnt

\* The rotation, where the method rotates, left a foreground pixel in frame.
RotationKeepsShape ==
    method \in RdNames \cup RrNames => Foreground(heap["rotated_image"]) # {}

\* C1: for each of the five methods and every non-empty mask (whose rotation
\* keeps a foreground pixel in frame), the call returns a number r with
\* 0 <= r <= 1.
C1_ScoreInUnitInterval ==
    (Done /\ method \in Recognised /\ NonEmpty /\ RotationKeepsShape)
        => (outcome = "return" /\ InUnitInterval(result))

\* C2: an unrecognised method identifier ends in an error reported to the
\* caller, never in a normal return without a score, and nothing is computed.
C2_InvalidMethodReported ==
    (Done /\ method \notin Recognised)
        => /\ outcome \in Exceptions
           /\ heap = [image |-> image0, rotated_image |-> Blank, copy |-> Blank]
           /\ \A ref \in {"image", "rotated_image"} :
                 ~areas[ref].computed /\ ~clip[ref].computed

\* C3: on an all-zero mask each of the five methods ends in the empty-region
\* error (the IndexError of get_contour), and in no other fault.
C3_EmptyRegionForEveryMethod ==
    (Done /\ method \in Recognised /\ ~NonEmpty) => outcome = "IndexError"

\* The contour moment m00 of the first contour is 0 (a pixel or a line).
Degenerate == NonEmpty /\ cv_moments(Cnt).m00 = 0

\* C4: on a non-empty mask whose shape is degenerate (and whose rotation keeps
\* a foreground pixel in frame) each of the five methods returns a number in
\* [0,1] and raises nothing.
C4_DegenerateShapeScored ==
    (Done /\ method \in Recognised /\ Degenerate /\ RotationKeepsShape)
        => (outcome = "return" /\ InUnitInterval(result))

\* C5: the caller's mask holds, at every point of the call and after it, the
\* pixel values it held before the call.
C5_CallerMaskUnchanged == heap["image"] = image0

\* A Robust MBR call has returned a score; the fill of the bounding rectangle
\* changed the private copy and the rotation produced another mask.
C5_FillOnCopyOnly ==
    /\ Returned
    /\ method \in RrNames
    /\ areas["rotated_image"].computed
    /\ heap["copy"] # heap["rotated_image"]
    /\ heap["rotated_image"] # heap["image"]
    /\ heap["image"] = image0

C6_Expected(a1, b1, a2, b2) ==
    Sub(Whole(1),
        Div(Add(Div(AbsNum(Sub(a1, a2)), Add(a1, a2)),
                Div(AbsNum(Sub(b1, b2)), Add(b1, b2))),
            Whole(2)))

C6_WithLarger(s, A, a2) == C6_Expected(s.a, s.b, a2, Div(Whole(A), a2))

C6_Formula(s, A, r1, r2) == C6_WithLarger(s, A, IF Gt(r1, r2) THEN r1 ELSE r2)

C6_AsClaimed(s, A, r1, r2) ==
    IF Sign(r1) < 0 /\ Sign(r2) < 0 THEN IsZero(result)
    ELSE Eq(result, C6_Formula(s, A, r1, r2))

C6_AsCoded(s, A, r1, r2) ==
    IF Sign(r1) < 0 \/ Sign(r2) < 0 THEN IsZero(result)
    ELSE Eq(result, C6_Formula(s, A, r1, r2))

\* C6 as claimed: the Agreement descriptor is 0 when both roots are negative,
\* and otherwise 1 - R/2 with a2 the larger root and b2 = A/a2.
C6_ZeroWhenBothRootsNegative ==
    (Returned /\ method \in RaNames)
        => C6_AsClaimed(get_sides_based_on_moments(cv_moments(Cnt)), np_sum(image0),
                        Root1(cv_arcLength(Cnt), np_sum(image0)),
                        Root2(cv_arcLength(Cnt), np_sum(image0)))

\* C6 as amended: the Agreement descriptor is 0 when at least one of the two
\* roots is negative, and otherwise 1 - R/2 with a2 the larger root, b2 = A/a2
\* and R = |a1 - a2|/(a1 + a2) + |b1 - b2|/(b1 + b2).
C6_ZeroWhenARootIsNegative ==
    (Returned /\ method \in RaNames)
        => C6_AsCoded(get_sides_based_on_moments(cv_moments(Cnt)), np_sum(image0),
                      Root1(cv_arcLength(Cnt), np_sum(image0)),
                      Root2(cv_arcLength(Cnt), np_sum(image0)))

\* An Agreement call whose roots are both non-negative has returned a score
\* other than 0.
C6_AgreementScored ==
    /\ Returned
    /\ method \in RaNames
    /\ Sign(Root1(cv_arcLength(Cnt), np_sum(image0))) >= 0
    /\ Sign(Root2(cv_arcLength(Cnt), np_sum(image0))) >= 0
    /\ ~IsZero(result)

\* raw = 144 * mu22 / m00^3 of the caller's image.
C7_Raw(m) == Div(Mul(Whole(144), m.mu22), Whole(m.m00 * m.m00 * m.m00))

C7_Folded(raw) ==
    /\ Le(raw, Whole(1)) => Eq(result, raw)
    /\ Gt(raw, Whole(1)) => Eq(result, Div(Whole(1), raw)) /\ Eq(Mul(raw, result), Whole(1))
    /\ InUnitInterval(result)

C8_ReturnsMaximum ==
    (Returned /\ method \in RdNames \cup RrNames)
        => /\ Le(straight_image_descriptor, result)
           /\ Le(rotated_image_descriptor, result)
           /\ Eq(result, straight_image_descriptor) \/ Eq(result, rotated_image_descriptor)

\* A call has returned the descriptor of the rotated mask, the strictly
\* higher of the two.
C8_RotatedHigher ==
    /\ Returned
    /\ method \in RdNames \cup RrNames
    /\ Gt(rotated_image_descriptor, straight_image_descriptor)
    /\ Eq(result, rotated_image_descriptor)

\* C9: on a non-empty mask get_mbr_areas returns (region_area, mbr_area) with
\* 0 < region_area <= mbr_area, region_area the foreground pixel count of the
\* mask, so that region_area / mbr_area lies in (0,1].
C9_RegionWithinRectangle ==
    \A ref \in {"image", "rotated_image"} :
        areas[ref].computed
            => /\ areas[ref].region_area = Cardinality(Foreground(heap[ref]))
               /\ 0 < areas[ref].region_area
               /\ areas[ref].region_area <= areas[ref].mbr_area

\* The sum of the pixels of img inside the bounding box r = (x, y, w, h):
\* columns x .. x+w-1 and rows y .. y+h-1.
C10_InsideBox(img, r) == SliceSum(img, r.y, r.y + r.h, r.x, r.x + r.w)

\* C10: in both per-orientation descriptors A2 is the sum of the pixels inside
\* the bounding box of the contour; with a single component A2 = A1.
C10_ClippedRegionIsBoxSum ==
    \A ref \in {"image", "rotated_image"} :
        clip[ref].computed
            => /\ clip[ref].A2
                    = C10_InsideBox(heap[ref],
                                    cv_boundingRect(get_contour(heap[ref], order).cnt))
               /\ Cardinality(Components(heap[ref])) = 1 => clip[ref].A2 = clip[ref].A1

=============================================================================
